---- MODULE Spec2Model ----
(***************************************************************************)
(* A model of analyze_transactions (src/main.py): one batch of bank        *)
(* transaction records is normalised into a table, a counterparty is       *)
(* resolved per row, and the aggregation, payment-frequency, duplicate,    *)
(* outlier and behavioural-profile passes build the report.                *)
(*                                                                         *)
(* Texts are sequences of tokens: a token is a word ("Alice"), a blank     *)
(* (" "), a comma (",") or the marker "AZV-".  No token is a prefix of     *)
(* another one, so the token-wise order of two texts is the order of the   *)
(* strings they spell.                                                     *)
(*                                                                         *)
(* A JSON scalar is a record [t, n, s]: t is its kind, n its number (for   *)
(* the kinds that carry one) and s its text (for "str").                   *)
(*   "absent"  the key is missing from the record                          *)
(*   "null"    JSON null (None); also a NaN cell of the table              *)
(*   "nan"     the float NaN in the input tree                             *)
(*   "num"     the number n                                                *)
(*   "numstr"  a string that holds the decimal numeral of n                *)
(*   "isodate" a string that holds the ISO date of day n (day 1 is         *)
(*             2024-01-01, a Monday)                                       *)
(*   "str"     any other string, with text s                               *)
(* Amounts are whole numbers; statistics the code computes in floating     *)
(* point are computed here in fixed point, in hundredths.                  *)
(***************************************************************************)
EXTENDS Integers, Sequences, FiniteSets, TLC

\* ------------------------------------------------------------------ bounds
\* The length of the combined list in the general specification.
MaxBatch == 3
\* The length of the combined list in the outlier specification.
MaxOutlierBatch == 8
\* The length of the combined list in the top-counterparties specification.
MaxTopBatch == 6
\* The number of hash seeds the interpreter may start with.
NumSeeds == 2

\* ------------------------------------------------------------ JSON scalars
Absent == [t |-> "absent", n |-> 0, s |-> <<>>]
Null == [t |-> "null", n |-> 0, s |-> <<>>]
NaNVal == [t |-> "nan", n |-> 0, s |-> <<>>]
Num(v) == [t |-> "num", n |-> v, s |-> <<>>]
NumStr(v) == [t |-> "numstr", n |-> v, s |-> <<>>]
IsoDate(d) == [t |-> "isodate", n |-> d, s |-> <<>>]
Str(txt) == [t |-> "str", n |-> 0, s |-> txt]

\* The keys of a raw record, by the column names json_normalize gives them.
Keys == {"amt", "cur", "date", "cred", "deb", "rem", "iban"}

\* ------------------------------------------------------------------- texts
\* The tokens in the order of the strings they spell (ASCII).
TokenOrder == <<" ", ",", "AZV-", "Alice", "Bob", "Carol", "Dave", "Erin", "Frank", "Grace", "ref">>

TokRank(tok) == CHOOSE k \in 1..Len(TokenOrder) : TokenOrder[k] = tok

IsSpace(tok) == tok = " "

RECURSIVE LStrip(_)
LStrip(s) ==
    IF s # <<>> /\ IsSpace(Head(s)) THEN LStrip(Tail(s)) ELSE s

RECURSIVE RStrip(_)
RStrip(s) ==
    IF s # <<>> /\ IsSpace(s[Len(s)]) THEN RStrip(SubSeq(s, 1, Len(s) - 1)) ELSE s

\* str.strip()
Strip(s) == RStrip(LStrip(s))

\* s1 < s2 as Python compares strings.
RECURSIVE TextLess(_, _)
TextLess(s1, s2) ==
    IF s2 = <<>> THEN FALSE
    ELSE IF s1 = <<>> THEN TRUE
    ELSE IF Head(s1) # Head(s2) THEN TokRank(Head(s1)) < TokRank(Head(s2))
    ELSE TextLess(Tail(s1), Tail(s2))

\* The end of the longest run of non-comma tokens that starts at position i.
RECURSIVE RunEnd(_, _)
RunEnd(s, i) ==
    IF i < Len(s) /\ s[i + 1] # "," THEN RunEnd(s, i + 1) ELSE i

\* re.findall(r'AZV-([^,]+)', s) from position i on: the captured groups of
\* the non-overlapping matches, left to right.
RECURSIVE FindAllFrom(_, _)
FindAllFrom(s, i) ==
    IF i > Len(s) THEN <<>>
    ELSE IF s[i] = "AZV-" /\ i < Len(s) /\ s[i + 1] # ","
         THEN LET j == RunEnd(s, i + 1)
              IN  <<SubSeq(s, i + 1, j)>> \o FindAllFrom(s, j + 1)
         ELSE FindAllFrom(s, i + 1)

FindAll(s) == FindAllFrom(s, 1)

\* The elements of a sequence, each once, in the order of first appearance.
RECURSIVE Distinct(_)
Distinct(q) ==
    IF q = <<>> THEN <<>>
    ELSE LET d == Distinct(SubSeq(q, 1, Len(q) - 1))
             x == q[Len(q)]
         IN  IF \E k \in 1..Len(d) : d[k] = x THEN d ELSE Append(d, x)

\* {m.strip() for m in matches if m.strip()}: the distinct stripped non-empty
\* fragments (listed here in the order of first appearance).
RECURSIVE StrippedNonEmpty(_)
StrippedNonEmpty(ms) ==
    IF ms = <<>> THEN <<>>
    ELSE LET m == Strip(Head(ms))
         IN  (IF m # <<>> THEN <<m>> ELSE <<>>) \o StrippedNonEmpty(Tail(ms))

\* list(a_set): the iteration order of a set of strings is not specified and
\* follows the interpreter's hash seed.  Any element may come first; a seed
\* fixes the order of a given set.
SetToList(frs, seed) ==
    IF frs = <<>> THEN <<>>
    ELSE LET k == seed % Len(frs)
         IN  SubSeq(frs, k + 1, Len(frs)) \o SubSeq(frs, 1, k)

extract_azv_entities(transaction, seed) ==
    IF transaction.t # "str" THEN <<>>
    ELSE SetToList(Distinct(StrippedNonEmpty(FindAll(transaction.s))), seed)

\* -------------------------------------------------------------- arithmetic
Abs(x) == IF x < 0 THEN -x ELSE x

\* The integer nearest to p / q (q > 0), halves to the even neighbour.
RoundDiv(p, q) ==
    LET a == Abs(p)
        f == a \div q
        r == a % q
        m == IF 2 * r > q \/ (2 * r = q /\ f % 2 = 1) THEN f + 1 ELSE f
    IN  IF p < 0 THEN -m ELSE m

\* The integer nearest to the square root of p / q (p >= 0, q > 0).
\* It is the least r with (2r + 1)^2 > 4p / q, found by bisection of lo..hi.
RECURSIVE SqrtUp(_, _, _)
SqrtUp(m, lo, hi) ==
    IF lo >= hi THEN lo
    ELSE LET mid == (lo + hi) \div 2
         IN  IF (2 * mid + 1) * (2 * mid + 1) > m
             THEN SqrtUp(m, lo, mid)
             ELSE SqrtUp(m, mid + 1, hi)

SqrtRound(p, q) == SqrtUp((4 * p) \div q, 0, 23169)

RECURSIVE SumSeq(_)
SumSeq(q) == IF q = <<>> THEN 0 ELSE Head(q) + SumSeq(Tail(q))

RECURSIVE SumSq(_)
SumSq(q) == IF q = <<>> THEN 0 ELSE Head(q) * Head(q) + SumSq(Tail(q))

\* Floating-point results: a number (v, in the unit of the field), NaN or None.
F(v) == [k |-> "f", v |-> v]
NaNF == [k |-> "nan", v |-> 0]
NoneF == [k |-> "none", v |-> 0]

\* ---------------------------------------------------------------- fix_nan
fix_nan(obj) == IF obj.t = "nan" THEN Null ELSE obj

\* fix_nan over a list of mappings.
fix_nan_list(recs) == [i \in 1..Len(recs) |-> [key \in Keys |-> fix_nan(recs[i][key])]]

\* ------------------------------------------------------------- normaliser
\* The columns pd.json_normalize gives the table: a key some record has.
Columns(recs) == {key \in Keys : \E i \in 1..Len(recs) : recs[i][key].t # "absent"}

\* A cell of the table: a key the record lacks is a NaN cell.
Cell(rec, key) == IF rec[key].t = "absent" THEN Null ELSE rec[key]

\* df.empty: no rows or no columns.
DfEmpty(recs) == Len(recs) = 0 \/ Columns(recs) = {}

\* pd.to_numeric(..., errors="coerce").fillna(0)
to_numeric(v) == IF v.t \in {"num", "numstr"} THEN v.n ELSE 0

\* NaT, the missing date; the days are 1, 2, ...
NaT == 0

\* pd.to_datetime(..., errors="coerce")
to_datetime(v) == IF v.t = "isodate" THEN v.n ELSE NaT

\* strftime("%Y-%m-%d") if pd.notna(date) else None
DateStr(d) == IF d = NaT THEN Null ELSE IsoDate(d)

TypeOf(amount) == IF amount > 0 THEN "income" ELSE "expense"

\* The fallback currency of a table without a currency column.
BGN == Str(<<"BGN">>)

\* One row of the table after lines 40-48 and line 51.
NormRow(rec, columns) ==
    [amt |-> Cell(rec, "amt"), cur |-> Cell(rec, "cur"), date |-> Cell(rec, "date"),
     cred |-> Cell(rec, "cred"), deb |-> Cell(rec, "deb"), rem |-> Cell(rec, "rem"),
     iban |-> Cell(rec, "iban"),
     amount |-> to_numeric(Cell(rec, "amt")),
     currency |-> IF "cur" \in columns THEN Cell(rec, "cur") ELSE BGN,
     bookingDate |-> to_datetime(Cell(rec, "date")),
     type |-> TypeOf(to_numeric(Cell(rec, "amt"))),
     counterparty |-> Null]

\* --------------------------------------------------------------- resolver
\* pd.notna(x)
NotNa(v) == v.t # "null"

\* pd.notna(x) and str(x).strip()
Usable(v) == NotNa(v) /\ (v.t = "str" => Strip(v.s) # <<>>)

\* bool(x) is false
Falsy(v) == v.t = "null" \/ (v.t = "str" /\ v.s = <<>>) \/ (v.t = "num" /\ v.n = 0)

\* Lines 58-71 with the two names tried in the same order for both signs.
ByNameCreditorFirst(amount, creditor, debtor) ==
    IF amount # 0
    THEN IF Usable(creditor) THEN creditor
         ELSE IF Usable(debtor) THEN debtor
         ELSE Null
    ELSE Null

\* The name chosen by lines 58-71.
ByName(amount, creditor, debtor) ==
    IF amount > 0
    THEN IF Usable(debtor) THEN debtor
         ELSE IF Usable(creditor) THEN creditor
         ELSE Null
    ELSE IF amount < 0
    THEN IF Usable(creditor) THEN creditor
         ELSE IF Usable(debtor) THEN debtor
         ELSE Null
    ELSE Null

\* The counterparty of one row, lines 53-79.
ResolveRow(row, columns, seed) ==
    LET creditor == row.cred
        debtor == row.deb
        remittance == IF "rem" \in columns THEN row.rem ELSE Str(<<>>)
        byName == ByName(row.amount, creditor, debtor)
        extracted == extract_azv_entities(remittance, seed)
    IN  IF Falsy(byName)
        THEN IF extracted # <<>> THEN Str(extracted[1]) ELSE byName
        ELSE byName

\* ----------------------------------------------------------------- groups
\* The positions of the rows whose counterparty is cp, in table order.
RowsOf(table, cp) == SelectSeq([i \in 1..Len(table) |-> i], LAMBDA i : table[i].counterparty = cp)

\* The least text of a non-empty set of string values.
MinKey(S) == CHOOSE x \in S : \A y \in S : ~TextLess(y.s, x.s)

RECURSIVE SortKeys(_)
SortKeys(S) == IF S = {} THEN <<>> ELSE <<MinKey(S)>> \o SortKeys(S \ {MinKey(S)})

\* The groups of df.groupby("counterparty"): the non-null keys, sorted.
GroupKeys(table) ==
    SortKeys({table[i].counterparty : i \in {j \in 1..Len(table) : NotNa(table[j].counterparty)}})

\* A stable sort of positions by ascending key (insertion sort); key is a
\* function on the positions.
RECURSIVE InsertAsc(_, _, _)
InsertAsc(sorted, x, key) ==
    IF sorted = <<>> THEN <<x>>
    ELSE IF key[sorted[Len(sorted)]] <= key[x] THEN Append(sorted, x)
    ELSE Append(InsertAsc(SubSeq(sorted, 1, Len(sorted) - 1), x, key), sorted[Len(sorted)])

RECURSIVE SortAsc(_, _)
SortAsc(q, key) ==
    IF q = <<>> THEN <<>>
    ELSE InsertAsc(SortAsc(SubSeq(q, 1, Len(q) - 1), key), q[Len(q)], key)

\* A stable sort by descending key.
RECURSIVE InsertDesc(_, _, _)
InsertDesc(sorted, x, key) ==
    IF sorted = <<>> THEN <<x>>
    ELSE IF key[sorted[Len(sorted)]] >= key[x] THEN Append(sorted, x)
    ELSE Append(InsertDesc(SubSeq(sorted, 1, Len(sorted) - 1), x, key), sorted[Len(sorted)])

RECURSIVE SortDesc(_, _)
SortDesc(q, key) ==
    IF q = <<>> THEN <<>>
    ELSE InsertDesc(SortDesc(SubSeq(q, 1, Len(q) - 1), key), q[Len(q)], key)

\* The amounts of the rows at the positions q.
Amounts(table, q) == [k \in 1..Len(q) |-> table[q[k]].amount]

\* ------------------------------------------------------------- aggregator
TotalOf(table, type) ==
    SumSeq(Amounts(table, SelectSeq([i \in 1..Len(table) |-> i], LAMBDA i : table[i].type = type)))

\* The days that occur in the table, ascending.
RECURSIVE SortNums(_)
SortNums(S) ==
    IF S = {} THEN <<>>
    ELSE LET m == CHOOSE x \in S : \A y \in S : x <= y
         IN  <<m>> \o SortNums(S \ {m})

\* Lines 87-91: the sum per date string, keys ascending.
DailySummary(table) ==
    LET days == SortNums({table[i].bookingDate : i \in 1..Len(table)} \ {NaT})
    IN  [k \in 1..Len(days) |->
            <<IsoDate(days[k]),
              SumSeq(Amounts(table, SelectSeq([i \in 1..Len(table) |-> i],
                                              LAMBDA i : table[i].bookingDate = days[k])))>>]

\* head(5)
TopN == 5

Head5(q) == SubSeq(q, 1, IF Len(q) < TopN THEN Len(q) ELSE TopN)

\* Lines 94-98 with the sort left ascending.
TopAscending(table) ==
    LET keys == GroupKeys(table)
        sums == [k \in 1..Len(keys) |-> <<keys[k], SumSeq(Amounts(table, RowsOf(table, keys[k])))>>]
        order == SortAsc([k \in 1..Len(keys) |-> k], [k \in 1..Len(keys) |-> sums[k][2]])
    IN  Head5([k \in 1..Len(order) |-> sums[order[k]]])

\* Lines 94-98: the sum per counterparty, descending, the first five.
TopCounterparties(table) ==
    LET keys == GroupKeys(table)
        sums == [k \in 1..Len(keys) |-> <<keys[k], SumSeq(Amounts(table, RowsOf(table, keys[k])))>>]
        order == SortDesc([k \in 1..Len(keys) |-> k], [k \in 1..Len(keys) |-> sums[k][2]])
    IN  Head5([k \in 1..Len(order) |-> sums[order[k]]])

\* ------------------------------------------------------ payment frequency
\* The days of the rows at the positions q that have a date, ascending.
SortedDates(table, q) ==
    LET dated == SelectSeq(q, LAMBDA i : table[i].bookingDate # NaT)
        order == SortAsc(dated, [i \in 1..Len(table) |-> table[i].bookingDate])
    IN  [k \in 1..Len(order) |-> table[order[k]].bookingDate]

\* The gaps, in days, between consecutive dates.
Diffs(dates) == [k \in 1..(IF Len(dates) = 0 THEN 0 ELSE Len(dates) - 1) |-> dates[k + 1] - dates[k]]

\* round(diffs.mean(), 2), in hundredths of a day.
MeanDiff100(diffs) == RoundDiv(100 * SumSeq(diffs), Len(diffs))

\* Lines 101-107.
PaymentFrequency(table) ==
    LET keys == GroupKeys(table)
        withGaps == SelectSeq(keys, LAMBDA cp : Len(SortedDates(table, RowsOf(table, cp))) > 1)
    IN  [k \in 1..Len(withGaps) |->
            <<withGaps[k], MeanDiff100(Diffs(SortedDates(table, RowsOf(table, withGaps[k]))))>>]

\* ------------------------------------------------------ duplicate detector
\* groupby(...) drops a row whose key holds a null in any of its three parts.
DupKeyOk(row) == NotNa(row.counterparty) /\ NotNa(row.amt) /\ NotNa(row.cur)

SameDupKey(r1, r2) ==
    r1.counterparty = r2.counterparty /\ r1.amt = r2.amt /\ r1.cur = r2.cur

\* Lines 110-112: the positions of the rows that filter(len(g) > 1) keeps, in
\* table order.
DuplicateCandidates(table) ==
    SelectSeq([i \in 1..Len(table) |-> i],
              LAMBDA i : DupKeyOk(table[i])
                         /\ \E j \in 1..Len(table) : j # i /\ DupKeyOk(table[j])
                                                     /\ SameDupKey(table[i], table[j]))

\* Lines 117-124.
DupRow(row) ==
    [bookingDate |-> DateStr(row.bookingDate), counterparty |-> row.counterparty,
     amount |-> row.amt, currency |-> row.cur, iban |-> row.iban, remittance |-> row.rem]

PotentialDuplicates(table) ==
    LET cand == DuplicateCandidates(table)
    IN  [k \in 1..Len(cand) |-> DupRow(table[cand[k]])]

\* -------------------------------------------------------- outlier detector
\* n * n * (population variance) of a list of amounts; std > 0 iff it is > 0.
Spread(as) == Len(as) * SumSq(as) - SumSeq(as) * SumSeq(as)

\* The size gate of line 130: len(group) > 2.
MinOutlierGroup == 2

BigEnough(n) == n > MinOutlierGroup

\* The test with a threshold of 2 deviations.
IsOutlierLoose(a, as) ==
    LET d == Len(as) * a - SumSeq(as)
    IN  d * d > 4 * Spread(as)

\* abs(z_score) > 2.5 for the amount a in a group with the amounts as:
\* |a - mean| > 2.5 * std, both sides squared and scaled by 4 * n * n.
IsOutlier(a, as) ==
    LET d == Len(as) * a - SumSeq(as)
    IN  4 * d * d > 25 * Spread(as)

\* Lines 137-146; mean, std_dev and z_score in hundredths.
OutlierRow(row, cp, as) ==
    LET n == Len(as)
        d == n * row.amount - SumSeq(as)
        z == SqrtRound(10000 * d * d, Spread(as))
    IN  [counterparty |-> cp, amount |-> row.amount,
         mean |-> RoundDiv(100 * SumSeq(as), n),
         std_dev |-> SqrtRound(10000 * Spread(as), n * n),
         z_score |-> IF d < 0 THEN -z ELSE z,
         currency |-> row.currency, bookingDate |-> DateStr(row.bookingDate),
         reason |-> IF d > 0 THEN "Unusually high transaction amount"
                    ELSE "Unusually low transaction amount"]

\* Lines 130-146 for one group.
GroupOutliers(table, cp) ==
    LET q == RowsOf(table, cp)
        as == Amounts(table, q)
        hit == SelectSeq(q, LAMBDA i : IsOutlier(table[i].amount, as))
    IN  IF BigEnough(Len(q)) /\ Spread(as) > 0
        THEN [k \in 1..Len(hit) |-> OutlierRow(table[hit[k]], cp, as)]
        ELSE <<>>

RECURSIVE OutliersOf(_, _)
OutliersOf(table, keys) ==
    IF keys = <<>> THEN <<>>
    ELSE GroupOutliers(table, Head(keys)) \o OutliersOf(table, Tail(keys))

\* Lines 127-146.
Outliers(table) == OutliersOf(table, GroupKeys(table))

\* ----------------------------------------------------- behavioural profiler
DayNames == <<"Monday", "Tuesday", "Wednesday", "Thursday", "Friday", "Saturday", "Sunday">>

\* dt.day_name(): day 1 is a Monday.
DayName(d) == DayNames[((d - 1) % 7) + 1]

\* The weekday names as Series.mode() sorts them.
DayNamesSorted == <<"Friday", "Monday", "Saturday", "Sunday", "Thursday", "Tuesday", "Wednesday">>

\* How often the weekday name occurs among the dates.
DayCount(dates, name) == Cardinality({k \in 1..Len(dates) : DayName(dates[k]) = name})

\* mode()[0] of the day names of a non-empty list of dates: the most frequent
\* name, the first in sorted order among equally frequent ones.
ModeDay(dates) ==
    LET best == CHOOSE c \in 0..Len(dates) :
                    /\ \E k \in 1..7 : DayCount(dates, DayNamesSorted[k]) = c
                    /\ \A k \in 1..7 : DayCount(dates, DayNamesSorted[k]) <= c
        first == CHOOSE k \in 1..7 :
                    /\ DayCount(dates, DayNamesSorted[k]) = best
                    /\ \A j \in 1..(k - 1) : DayCount(dates, DayNamesSorted[j]) # best
    IN  DayNamesSorted[first]

\* group.sort_values("bookingDate"): ascending, stable, rows without a date last.
SortByDate(table, q) ==
    SortAsc(SelectSeq(q, LAMBDA i : table[i].bookingDate # NaT),
            [i \in 1..Len(table) |-> table[i].bookingDate])
    \o SelectSeq(q, LAMBDA i : table[i].bookingDate = NaT)

\* Series.std() (ddof = 1) of a list of whole numbers, in hundredths; NaN for
\* fewer than two values.
SampleStd100(xs) ==
    IF Len(xs) < 2 THEN NaNF
    ELSE F(SqrtRound(10000 * Spread(xs), Len(xs) * (Len(xs) - 1)))

\* The sign of the slope np.polyfit fits to the amounts against 0, 1, 2, ...
SlopeSign(as) ==
    LET n == Len(as)
        sxy == SumSeq([k \in 1..n |-> (k - 1) * as[k]])
        sx == SumSeq([k \in 1..n |-> k - 1])
    IN  n * sxy - sx * SumSeq(as)

\* Line 172, in hundredths.
Volatility(std, sum, n) ==
    IF sum = 0 THEN F(0)
    ELSE IF std.k = "nan" THEN NaNF
    ELSE F(RoundDiv(std.v * n, Abs(sum)))

\* Line 173, in hundredths.
Irregularity(diffs, avg_interval) ==
    IF avg_interval.k = "f" /\ avg_interval.v > 0
    THEN IF SampleStd100(diffs).k = "nan" THEN NaNF
         ELSE F(RoundDiv(SampleStd100(diffs).v * 100, avg_interval.v))
    ELSE F(0)

\* x + y in floating point.
AddF(x, y) == IF x.k = "nan" \/ y.k = "nan" THEN NaNF ELSE F(x.v + y.v)

\* The cap of line 174, in hundredths.
RiskCap == 10000

\* A minimum that passes NaN on, as numpy's minimum does.
Min100Propagating(x) ==
    IF x.k = "nan" THEN NaNF ELSE IF x.v < RiskCap THEN x ELSE F(RiskCap)

\* Python's min(100, x): x when x < 100 is true, else 100.  A comparison with
\* NaN is false, so min(100, NaN) is 100.
Min100(x) == IF x.k = "f" /\ x.v < RiskCap THEN x ELSE F(RiskCap)

\* Line 174: round(min(100, (volatility + irregularity) * 50), 2).
RiskScore(volatility, irregularity) ==
    LET sum == AddF(volatility, irregularity)
    IN  Min100(IF sum.k = "nan" THEN NaNF ELSE F(sum.v * 50))

\* Lines 166-170 raise KeyError when no row of the group has a date: the
\* Series of day names is as long as the group, so it is never empty, and the
\* mode of a Series of NaN is empty.
Undated(table, cp) == SortedDates(table, RowsOf(table, cp)) = <<>>

\* Lines 152-183 for one group.
ProfileOf(table, cp) ==
    LET q == SortByDate(table, RowsOf(table, cp))
        as == Amounts(table, q)
        n == Len(q)
        sum == SumSeq(as)
        std_amount == SampleStd100(as)
        dates == SortedDates(table, q)
        diffs == Diffs(dates)
        avg_interval == IF Len(diffs) > 0 THEN F(MeanDiff100(diffs)) ELSE NoneF
    IN  [avg_amount |-> RoundDiv(100 * sum, n),
         consistency |-> IF sum = 0 THEN NoneF
                         ELSE IF std_amount.k = "nan" THEN NaNF
                         ELSE F(IF sum < 0 THEN -RoundDiv(std_amount.v * n, -sum)
                                ELSE RoundDiv(std_amount.v * n, sum)),
         avg_interval_days |-> avg_interval,
         trend |-> IF n >= 2
                   THEN (IF SlopeSign(as) > 0 THEN "increasing" ELSE "decreasing")
                   ELSE "stable",
         most_active_day |-> ModeDay(dates),
         risk_score |-> RiskScore(Volatility(std_amount, sum, n),
                                  Irregularity(diffs, avg_interval))]

\* Lines 149-183: the profiles of the groups, in group order.
BehavioralProfiles(table) ==
    LET keys == GroupKeys(table)
    IN  [k \in 1..Len(keys) |-> <<keys[k], ProfileOf(table, keys[k])>>]

\* ---------------------------------------------------------- the state
VARIABLES
    booked,               \* data["transactions"]["booked"]
    pending,              \* data["transactions"]["pending"]
    pc,                   \* the pass analyze_transactions is about to run
    pandas,               \* what the installed pd.to_datetime(None) gives
    cols,                 \* df.columns, as json_normalize made them
    df,                   \* the rows of the table
    summary,
    daily_totals,
    top_debtors,
    payment_frequency,
    potential_duplicates,
    outliers,
    behavioral_profiles,
    outcome,              \* "none", "report", "error" or "raised"
    exc,                  \* the exception raised, if any
    second,               \* the caller has submitted the same tree again
    first                 \* what the first submission returned

input == <<booked, pending>>
passes == <<summary, daily_totals, top_debtors, payment_frequency,
            potential_duplicates, outliers, behavioral_profiles>>
vars == <<booked, pending, pc, pandas, cols, df, summary, daily_totals, top_debtors,
          payment_frequency, potential_duplicates, outliers, behavioral_profiles,
          outcome, exc, second, first>>

NoSummary == [total_income |-> 0, total_expense |-> 0, net_result |-> 0, currency |-> Null]

\* What the call returned to its caller.
Output ==
    IF outcome = "report"
    THEN <<"report", summary, daily_totals, top_debtors, payment_frequency,
           potential_duplicates, outliers, behavioral_profiles, Len(df)>>
    ELSE IF outcome = "error" THEN <<"error", "No transactions found">>
    ELSE <<outcome, exc>>

\* The state of a call that has not started.
Fresh ==
    /\ pc = "start"
    /\ cols = {}
    /\ df = <<>>
    /\ summary = NoSummary
    /\ daily_totals = <<>>
    /\ top_debtors = <<>>
    /\ payment_frequency = <<>>
    /\ potential_duplicates = <<>>
    /\ outliers = <<>>
    /\ behavioral_profiles = <<>>
    /\ outcome = "none"
    /\ exc = ""

\* The call ends by raising e.
Raise(e) ==
    /\ outcome' = "raised"
    /\ exc' = e
    /\ pc' = "done"

\* ------------------------------------------------------------ the passes
\* Lines 34-48: fix_nan, the combined list, the table and its typed columns.
\* A table without the amount column makes pd.to_numeric return the scalar
\* 0, which has no fillna.  A table without the bookingDate column gets
\* pd.to_datetime(None), NaT or None with the pandas installed.
Normalize ==
    /\ pc = "start"
    /\ LET all_transactions == fix_nan_list(booked \o pending)
           columns == Columns(all_transactions)
       IN  IF DfEmpty(all_transactions)
           THEN /\ outcome' = "error"
                /\ pc' = "done"
                /\ UNCHANGED <<pandas, cols, df, exc>>
           ELSE IF "amt" \notin columns
           THEN /\ Raise("AttributeError: 'int' object has no attribute 'fillna'")
                /\ cols' = columns
                /\ UNCHANGED <<pandas, df>>
           ELSE /\ cols' = columns
                /\ df' = [i \in 1..Len(all_transactions) |-> NormRow(all_transactions[i], columns)]
                /\ IF "date" \in columns
                   THEN pandas' = pandas
                   ELSE pandas' \in (IF pandas = "unknown" THEN {"NaT", "None"} ELSE {pandas})
                /\ pc' = "resolve"
                /\ UNCHANGED <<outcome, exc>>
    /\ UNCHANGED <<input, passes, second, first>>

\* The hash seeds an interpreter may start with.
Seeds == 0..(NumSeeds - 1)

\* Lines 51-79: the counterparty of every row.  The order of the set that
\* extract_azv_entities lists follows the hash seed of the interpreter that
\* serves the call.
Resolve ==
    /\ pc = "resolve"
    /\ \E seed \in Seeds :
          df' = [i \in 1..Len(df) |-> [df[i] EXCEPT !.counterparty = ResolveRow(df[i], cols, seed)]]
    /\ pc' = "aggregate"
    /\ UNCHANGED <<input, pandas, cols, passes, outcome, exc, second, first>>

\* Lines 82-98: the totals, the daily totals and the top counterparties.
\* The .dt accessor raises on a bookingDate column that holds None.
Aggregate ==
    /\ pc = "aggregate"
    /\ IF "date" \notin cols /\ pandas = "None"
       THEN /\ Raise("AttributeError: Can only use .dt accessor with datetimelike values")
            /\ UNCHANGED <<summary, daily_totals, top_debtors>>
       ELSE /\ summary' = [total_income |-> TotalOf(df, "income"),
                           total_expense |-> TotalOf(df, "expense"),
                           net_result |-> SumSeq(Amounts(df, [i \in 1..Len(df) |-> i])),
                           currency |-> df[1].currency]
            /\ daily_totals' = DailySummary(df)
            /\ top_debtors' = TopCounterparties(df)
            /\ pc' = "frequency"
            /\ UNCHANGED <<outcome, exc>>
    /\ UNCHANGED <<input, pandas, cols, df, payment_frequency, potential_duplicates,
                   outliers, behavioral_profiles, second, first>>

\* Lines 101-107.
Frequency ==
    /\ pc = "frequency"
    /\ payment_frequency' = PaymentFrequency(df)
    /\ pc' = "duplicates"
    /\ UNCHANGED <<input, pandas, cols, df, summary, daily_totals, top_debtors,
                   potential_duplicates, outliers, behavioral_profiles, outcome, exc,
                   second, first>>

\* Lines 110-124.  groupby raises KeyError for a column the table lacks.
Duplicates ==
    /\ pc = "duplicates"
    /\ IF "cur" \notin cols
       THEN /\ Raise("KeyError: 'transactionAmount.currency'")
            /\ UNCHANGED potential_duplicates
       ELSE /\ potential_duplicates' = PotentialDuplicates(df)
            /\ pc' = "outliers"
            /\ UNCHANGED <<outcome, exc>>
    /\ UNCHANGED <<input, pandas, cols, df, summary, daily_totals, top_debtors,
                   payment_frequency, outliers, behavioral_profiles, second, first>>

\* Lines 127-146.
DetectOutliers ==
    /\ pc = "outliers"
    /\ outliers' = Outliers(df)
    /\ pc' = "profiles"
    /\ UNCHANGED <<input, pandas, cols, df, summary, daily_totals, top_debtors,
                   payment_frequency, potential_duplicates, behavioral_profiles,
                   outcome, exc, second, first>>

\* Lines 149-183.  mode()[0] raises KeyError for a group without a date.
Profiles ==
    /\ pc = "profiles"
    /\ IF \E k \in 1..Len(GroupKeys(df)) : Undated(df, GroupKeys(df)[k])
       THEN /\ Raise("KeyError: 0")
            /\ UNCHANGED behavioral_profiles
       ELSE /\ behavioral_profiles' = BehavioralProfiles(df)
            /\ pc' = "assemble"
            /\ UNCHANGED <<outcome, exc>>
    /\ UNCHANGED <<input, pandas, cols, df, summary, daily_totals, top_debtors,
                   payment_frequency, potential_duplicates, outliers, second, first>>

\* Lines 186-202.
Assemble ==
    /\ pc = "assemble"
    /\ outcome' = "report"
    /\ pc' = "done"
    /\ UNCHANGED <<input, pandas, cols, df, passes, exc, second, first>>

\* The caller keeps what the call returned and submits the same tree again
\* (line 214, a second request).
Again ==
    /\ pc = "done"
    /\ ~second
    /\ second' = TRUE
    /\ first' = Output
    /\ pc' = "start"
    /\ cols' = {}
    /\ df' = <<>>
    /\ summary' = NoSummary
    /\ daily_totals' = <<>>
    /\ top_debtors' = <<>>
    /\ payment_frequency' = <<>>
    /\ potential_duplicates' = <<>>
    /\ outliers' = <<>>
    /\ behavioral_profiles' = <<>>
    /\ outcome' = "none"
    /\ exc' = ""
    /\ UNCHANGED <<input, pandas>>

Next ==
    \/ Normalize
    \/ Resolve
    \/ Aggregate
    \/ Frequency
    \/ Duplicates
    \/ DetectOutliers
    \/ Profiles
    \/ Assemble
    \/ Again

\* ------------------------------------------------------------ the inputs
\* A raw record.
Rec(amt, cur, date, cred, deb, rem, iban) ==
    [amt |-> amt, cur |-> cur, date |-> date, cred |-> cred, deb |-> deb,
     rem |-> rem, iban |-> iban]

\* The lists of at most n records of R.
Lists(R, n) == UNION {[1..k -> R] : k \in 0..n}

\* The state before the first call on the lists bk and pd.
Start(bk, pd) ==
    /\ booked = bk
    /\ pending = pd
    /\ pandas = "unknown"
    /\ second = FALSE
    /\ first = <<>>
    /\ Fresh

EUR == Str(<<"EUR">>)
Alice == Str(<<"Alice">>)
Bob == Str(<<"Bob">>)

\* The records of the general specification: records with and without an
\* amount, a currency, a date and names, and the empty record.
GeneralRecords ==
    { Rec(Absent, Absent, Absent, Absent, Absent, Absent, Absent),
      Rec(Num(1), EUR, IsoDate(1), Alice, Alice, Absent, Str(<<"ref">>)),
      Rec(Num(-1), EUR, IsoDate(2), Alice, Alice, Absent, Absent),
      Rec(Num(2), EUR, IsoDate(4), Alice, Alice, Absent, Absent),
      Rec(Num(1), EUR, Null, Alice, Alice, Absent, Absent),
      Rec(Num(1), EUR, IsoDate(1), Absent, Absent, Absent, Absent),
      Rec(Num(1), EUR, Absent, Absent, Absent, Absent, Absent),
      Rec(NumStr(1), EUR, IsoDate(1), Alice, Alice, Absent, Absent),
      Rec(Num(1), Absent, IsoDate(1), Alice, Alice, Absent, Absent),
      Rec(Absent, EUR, IsoDate(8), Alice, Alice, Str(<<"AZV-", "Bob", ",", "ref">>), Absent),
      Rec(NaNVal, NaNVal, Str(<<"ref">>), Bob, Bob, Absent, Absent) }

Init ==
    \E bk \in Lists(GeneralRecords, MaxBatch), pd \in Lists(GeneralRecords, 1) :
        /\ Len(bk) + Len(pd) <= MaxBatch
        /\ Start(bk, pd)

Spec == Init /\ [][Next]_vars

\* ---- The resolver specification: one record, with every combination of an
\* amount sign, two names and a remittance text.
\* The number of comma-separated segments of a remittance text.
MaxSegments == 3

Segments ==
    { <<"ref">>, <<"AZV-", "Alice">>, <<"AZV-", "Bob">>, <<"AZV-", " ", "Bob", " ">>,
      <<"AZV-", " ">> }

\* The texts of at most n segments, joined by commas.
RECURSIVE Texts(_)
Texts(n) ==
    IF n = 1 THEN Segments
    ELSE Texts(n - 1) \cup {t \o <<",">> \o g : t \in Texts(n - 1), g \in Segments}

ResolveRecords ==
    { Rec(amt, EUR, IsoDate(1), cred, deb, rem, Absent) :
        amt \in {Num(-1), Num(0), Num(1), Str(<<"ref">>)},
        cred \in {Absent, Null, Str(<<" ">>), Str(<<" ", "Alice">>)},
        deb \in {Absent, Str(<<>>), Bob},
        rem \in {Absent} \cup {Str(t) : t \in Texts(MaxSegments)} }

InitResolve == \E r \in ResolveRecords : Start(<<r>>, <<>>)

SpecResolve == InitResolve /\ [][Next]_vars

\* ---- The outlier specification: long lists of a few records, so that a
\* group is large enough for one of its amounts to lie 2.5 deviations out.
OutlierRecords ==
    { Rec(Num(1), EUR, IsoDate(1), Absent, Alice, Absent, Absent),
      Rec(Num(2), EUR, IsoDate(3), Absent, Alice, Absent, Absent) }

\* A last record: another counterparty, or a far amount.
OutlierExtras ==
    { Rec(Num(1), EUR, IsoDate(2), Absent, Bob, Absent, Absent),
      Rec(Num(5), EUR, IsoDate(2), Absent, Alice, Absent, Absent) }

InitOutlier ==
    \E bk \in Lists(OutlierRecords, MaxOutlierBatch), pd \in Lists(OutlierExtras, 1) :
        Start(bk, pd)

SpecOutlier == InitOutlier /\ [][Next]_vars

\* ---- The top-counterparties specification: lists that name many
\* counterparties, first named in an order that is not the sorted one.
Payers == <<"Carol", "Alice", "Frank", "Bob", "Erin", "Dave", "Grace">>

\* The index sequences of length k that start at 1 and stay or step up by one.
RECURSIVE Climbs(_)
Climbs(k) ==
    IF k = 0 THEN {<<>>}
    ELSE IF k = 1 THEN {<<1>>}
    ELSE {Append(c, c[Len(c)] + d) : c \in Climbs(k - 1), d \in {0, 1}}

TopLists ==
    { [i \in 1..Len(c) |->
          Rec(Num(am[i]), EUR, IsoDate(i), Absent, Str(<<Payers[c[i]]>>), Absent, Absent)] :
        c \in UNION {Climbs(k) : k \in 0..MaxTopBatch},
        am \in [1..MaxTopBatch -> {1, 2}] }

InitTop == \E bk \in TopLists : Start(<<>>, bk)

SpecTop == InitTop /\ [][Next]_vars
\* ================================================================ claims
\* The combined list the call was given.
AllRecords == booked \o pending

\* The counterparties are resolved: the table holds them.
Resolved == pc \notin {"start", "resolve"} /\ df # <<>>

\* A name is non-blank: present, and not empty after trimming.
NonBlank(v) == v.t = "str" /\ Strip(v.s) # <<>>

\* The non-blank trimmed texts that follow "AZV-" up to the next comma.
Fragments(v) ==
    IF v.t # "str" THEN {}
    ELSE {Strip(FindAll(v.s)[k]) : k \in 1..Len(FindAll(v.s))} \ {<<>>}

\* The fragment whose first occurrence is the earliest.
EarliestFragment(v) ==
    LET ms == FindAll(v.s)
        k == CHOOSE j \in 1..Len(ms) :
                 Strip(ms[j]) # <<>> /\ \A h \in 1..(j - 1) : Strip(ms[h]) = <<>>
    IN  Strip(ms[k])

\* What the remittance fallback may give for the record rec.
FallbackOk(rec, cp) ==
    IF Fragments(rec.rem) = {} THEN cp = Null
    ELSE cp.t = "str" /\ cp.s \in Fragments(rec.rem)

\* The name an incoming (first = debtor) or outgoing (first = creditor)
\* transaction resolves to, or the fallback.
PrecedenceOk(rec, cp, firstName, secondName) ==
    IF NonBlank(firstName) THEN cp = firstName
    ELSE IF NonBlank(secondName) THEN cp = secondName
    ELSE FallbackOk(rec, cp)

\* C1: a transaction with a non-zero amount resolves to debtorName, else
\* creditorName, when the amount is positive, and to creditorName, else
\* debtorName, when it is negative, a name counting only if it is non-blank;
\* the remittance text decides only when neither name is non-blank, and the
\* counterparty is null when nothing gives a non-blank string.
Thm_C1 ==
    Resolved =>
        \A i \in 1..Len(df) :
            LET rec == AllRecords[i]
                cp == df[i].counterparty
            IN  /\ df[i].amount > 0 => PrecedenceOk(rec, cp, rec.deb, rec.cred)
                /\ df[i].amount < 0 => PrecedenceOk(rec, cp, rec.cred, rec.deb)

\* An incoming transaction with a blank debtorName took its creditorName,
\* although its remittance text holds a fragment.
Wit_C1 ==
    /\ Resolved
    /\ \E i \in 1..Len(df) :
          /\ df[i].amount > 0
          /\ AllRecords[i].deb.t = "str"
          /\ ~NonBlank(AllRecords[i].deb)
          /\ NonBlank(AllRecords[i].cred)
          /\ df[i].counterparty = AllRecords[i].cred
          /\ Fragments(AllRecords[i].rem) # {}

\* C2: a transaction whose amount is 0 resolves as an outgoing one does:
\* creditorName if non-blank, else debtorName if non-blank, else the fallback.
Claim_C2 ==
    Resolved =>
        \A i \in 1..Len(df) :
            df[i].amount = 0 =>
                PrecedenceOk(AllRecords[i], df[i].counterparty,
                             AllRecords[i].cred, AllRecords[i].deb)

\* C3: with no usable name and several distinct fragments in the remittance
\* text, the counterparty is the fragment that occurs first.
Claim_C3 ==
    Resolved =>
        \A i \in 1..Len(df) :
            LET rec == AllRecords[i]
            IN  (/\ ~NonBlank(rec.cred)
                 /\ ~NonBlank(rec.deb)
                 /\ Cardinality(Fragments(rec.rem)) > 1)
                => df[i].counterparty = Str(EarliestFragment(rec.rem))

\* C4: every call ends without raising, with the error object when the
\* combined list is empty and with the full report when it is not.
Claim_C4 ==
    pc = "done" =>
        IF AllRecords = <<>> THEN outcome = "error" ELSE outcome = "report"

\* The raw triple of a row: counterparty, amount and currency as given.
Triple(row) == <<row.counterparty, row.amt, row.cur>>

\* The rows that share their triple with another row, in table order.
SharedTripleRows ==
    SelectSeq([i \in 1..Len(df) |-> i],
              LAMBDA i : \E j \in 1..Len(df) : j # i /\ Triple(df[j]) = Triple(df[i]))

\* C5: potential_duplicates holds one row for exactly the transactions whose
\* triple (counterparty, raw amount, raw currency) another transaction
\* shares, in the order of the combined list, whatever the triple holds, a
\* null counterparty included.
Claim_C5 ==
    outcome = "report" =>
        potential_duplicates = [k \in 1..Len(SharedTripleRows) |-> DupRow(df[SharedTripleRows[k]])]

\* The risk score of a profile lies in [0, 100] (hundredths).
InRange(score) == score.k = "f" /\ score.v >= 0 /\ score.v <= 10000

\* The standard deviation of the group's amounts is undefined and its mean is
\* not 0: the group has one member, with a non-zero amount.
UndefinedVolatility(cp) ==
    Len(RowsOf(df, cp)) = 1 /\ SumSeq(Amounts(df, RowsOf(df, cp))) # 0

\* The standard deviation of the group's gaps is undefined and their mean is
\* positive: the group has two dated members, on different days.
UndefinedIrregularity(cp) ==
    LET dates == SortedDates(df, RowsOf(df, cp))
    IN  Len(dates) = 2 /\ dates[1] # dates[2]

PropagatingMin(x) == IF x.k = "nan" THEN NaNF ELSE IF x.v < 10000 THEN x ELSE F(10000)

\* The risk score with the undefined value passed through min(100, .) too.
PropagatedRisk(cp) ==
    LET q == SortByDate(df, RowsOf(df, cp))
        as == Amounts(df, q)
        diffs == Diffs(SortedDates(df, q))
        avg == IF Len(diffs) > 0 THEN F(MeanDiff100(diffs)) ELSE NoneF
        sum == AddF(Volatility(SampleStd100(as), SumSeq(as), Len(as)), Irregularity(diffs, avg))
    IN  PropagatingMin(IF sum.k = "nan" THEN NaNF ELSE F(sum.v * 50))

FarOut(a, n, s, ss) ==
    /\ n * ss - s * s # 0
    /\ 4 * (n * a - s) * (n * a - s) > 25 * (n * ss - s * s)

\* The rows that must be reported: a non-null counterparty, a group of more
\* than 2, a non-zero deviation, and an amount far out.
MustReport(i) ==
    LET cp == df[i].counterparty
        as == Amounts(df, RowsOf(df, cp))
    IN  /\ cp # Null
        /\ Len(as) > 2
        /\ FarOut(df[i].amount, Len(as), SumSeq(as), SumSq(as))

\* C7: outliers holds a row for a transaction exactly when its counterparty
\* is not null, its group has more than 2 members and a non-zero population
\* standard deviation, and its amount lies more than 2.5 deviations from the
\* mean: per counterparty and amount, as many rows as such transactions.
Thm_C7 ==
    outcome = "report" =>
        /\ Len(outliers) = Cardinality({i \in 1..Len(df) : MustReport(i)})
        /\ \A i \in 1..Len(df) :
              Cardinality({k \in 1..Len(outliers) :
                              /\ outliers[k].counterparty = df[i].counterparty
                              /\ outliers[k].amount = df[i].amount})
              = Cardinality({j \in 1..Len(df) :
                              /\ MustReport(j)
                              /\ df[j].counterparty = df[i].counterparty
                              /\ df[j].amount = df[i].amount})

\* A report with an outlier row whose group also holds two different amounts
\* that are not reported.
Wit_C7 ==
    /\ outcome = "report"
    /\ \E k \in 1..Len(outliers), i, j \in 1..Len(df) :
          /\ df[i].counterparty = outliers[k].counterparty
          /\ df[j].counterparty = outliers[k].counterparty
          /\ df[i].amount # df[j].amount
          /\ ~MustReport(i)
          /\ ~MustReport(j)

\* The sum of the amounts of the transactions with the counterparty cp.
SumFor(cp) == SumSeq(Amounts(df, RowsOf(df, cp)))

\* The non-null counterparties of the table.
Counterparties == {df[i].counterparty : i \in 1..Len(df)} \ {Null}

\* C8: top_debtors has at most 5 entries, in non-increasing order of their
\* sums; every key is a non-null counterparty of the input and its value the
\* sum of that counterparty's amounts; no counterparty left out has a sum
\* greater than one that is in.
Thm_C8 ==
    outcome = "report" =>
        /\ Len(top_debtors) <= 5
        /\ \A k \in 1..(Len(top_debtors) - 1) : top_debtors[k][2] >= top_debtors[k + 1][2]
        /\ \A k \in 1..Len(top_debtors) :
              /\ top_debtors[k][1] \in Counterparties
              /\ top_debtors[k][2] = SumFor(top_debtors[k][1])
        /\ \A cp \in Counterparties :
              (\A k \in 1..Len(top_debtors) : top_debtors[k][1] # cp)
              => \A k \in 1..Len(top_debtors) : SumFor(cp) <= top_debtors[k][2]

\* A report that leaves a counterparty out of its five, with different sums
\* among the five.
Wit_C8 ==
    /\ outcome = "report"
    /\ Len(top_debtors) = 5
    /\ Cardinality(Counterparties) > 5
    /\ top_debtors[1][2] > top_debtors[5][2]

\* C9: two calls on the same input tree return the same output.
Claim_C9 == (second /\ pc = "done") => Output = first

\* The dates of the transactions of the counterparty cp.
DatesOf(cp) == SortedDates(df, RowsOf(df, cp))

\* C10: the most_active_day of a profile is the weekday that occurs most
\* often among the dated transactions of its group, and null for a group
\* without a dated transaction, for which computing it does not fail.
Claim_C10 ==
    (pc = "done" /\ (outcome = "report" \/ exc = "KeyError: 0")) =>
        /\ outcome = "report"
        /\ \A k \in 1..Len(behavioral_profiles) :
              LET dates == DatesOf(behavioral_profiles[k][1])
                  day == behavioral_profiles[k][2].most_active_day
              IN  IF dates = <<>> THEN day = "null"
                  ELSE \A d \in 1..7 : DayCount(dates, day) >= DayCount(dates, DayNames[d])
====
